---- MODULE Spec2Model ----
(***************************************************************************)
(* Model of the geometry sorting and query code of larcorealg:             *)
(*   - AuxDetChannelMapAlg  (containment queries, channel mapping)         *)
(*   - CryostatGeo          (closest optical detector)                     *)
(*   - GeoObjectSorterStandard (comparators and std::sort calls)           *)
(*                                                                         *)
(* Units and encodings.  Lengths are integers in units of 0.001 cm, so     *)
(* that the sorter's DistanceTol (0.001 cm) is 1.  Comparisons on doubles  *)
(* are modelled as exact comparisons on these integers; floating-point     *)
(* rounding is not modelled.  An exception is modelled as the "status"     *)
(* field of the record an operation returns.                               *)
(***************************************************************************)
EXTENDS Integers, Sequences, FiniteSets, TLC

VARIABLES
  auxDets,               \* std::vector<geo::AuxDetGeo> handed to the queries
  ad,                    \* the caller's size_t& ad of NearestSensitiveAuxDet
  locRet,                \* outcome of the last containment query
  fADGeoToName,          \* std::map<size_t, std::string>
  fADGeoToChannelAndSV,  \* std::map<size_t, std::vector<std::pair<int, size_t>>>
  chanRet,               \* outcome of the last channel-map query
  fOpDets,               \* CryostatGeo::fOpDets
  opRet,                 \* outcome of the last optical-detector query
  pgeo,                  \* std::vector<geo::PlaneGeo> handed to SortPlanes
  planeRet,              \* outcome of the last SortPlanes call
  wgeo,                  \* std::vector<geo::WireGeo> handed to SortWires
  wireRet,               \* outcome of the last SortWires call
  vols,                  \* the siblings of one kind, in each of two loads
  volRet,                \* per load: the calls of the sort made so far
  fID,                   \* CryostatGeo::fID
  fTPCs,                 \* CryostatGeo::fTPCs
  cryoCalls,             \* the sorting and updating calls made on the cryostat
  cryoRet                \* outcome of the last cryostat query

locVars   == <<auxDets, ad, locRet>>
chanVars  == <<fADGeoToName, fADGeoToChannelAndSV, chanRet>>
opVars    == <<fOpDets, opRet>>
planeVars == <<pgeo, planeRet>>
wireVars  == <<wgeo, wireRet>>
volVars   == <<vols, volRet>>
cryoVars  == <<fID, fTPCs, cryoCalls, cryoRet>>
vars == <<locVars, chanVars, opVars, planeVars, wireVars, volVars, cryoVars>>

Abs(n) == IF n < 0 THEN -n ELSE n

\* States of the subsystems a specification does not exercise.
IdleLocator == auxDets = <<>> /\ ad = 0 /\ locRet = [op |-> "none"]
IdleChannel ==
  /\ fADGeoToName = <<>>
  /\ fADGeoToChannelAndSV = <<>>
  /\ chanRet = [op |-> "none"]
IdleOpDet  == fOpDets = <<>> /\ opRet = [op |-> "none"]
IdlePlanes == pgeo = <<>> /\ planeRet = [op |-> "none"]
IdleWires  == wgeo = <<>> /\ wireRet = [op |-> "none"]
IdleVolumes == vols = [kind |-> "none"] /\ volRet = <<>>
IdleCryostat ==
  /\ fID = [isValid |-> FALSE]
  /\ fTPCs = <<>>
  /\ cryoCalls = <<>>
  /\ cryoRet = [op |-> "none"]

(***************************************************************************)
(* CryostatGeo: closest optical detector                                   *)
(***************************************************************************)

\* Bounds of the optical-detector model.
MaxOpDets == 3
MaxOpPos  == 3

\* unsigned int is modelled UIntWidth bits wide (TLC integers are 32-bit
\* signed); only the order of its largest value relative to the collection
\* sizes and to DoubleMax matters.
UIntWidth == 16
UIntMax   == 2^UIntWidth - 1
\* std::numeric_limits<double>::max(): larger than every unsigned int and
\* every distance; the largest integer TLC represents stands for it.
DoubleMax == 2147483647

OpPos == 0..MaxOpPos

\* unsigned int -> double, the usual arithmetic conversion in
\* (iOpDet == std::numeric_limits<double>::max()): value preserving.
ToDouble(u) == u

NOpDet == Len(fOpDets)

\* OpDetGeo::DistanceToPoint: the distance from the detector's center, here
\* on one axis.
DistanceToPoint(opdet, point) == Abs(opdet.center - point)

\* CryostatGeo::OpDet(iopdet): bounds-checked access.
OpDet(iopdet) ==
  IF iopdet >= Len(fOpDets)
    THEN [status |-> "OpDetOutOfRange", index |-> iopdet]
    ELSE [status |-> "ok", index |-> iopdet]

OpDetElem(iopdet) == fOpDets[iopdet + 1]

\* The loop of GetClosestOpDet from position o on.
RECURSIVE ClosestScan(_, _, _, _)
ClosestScan(o, point, ClosestDet, ClosestDist) ==
  IF o >= NOpDet THEN ClosestDet
  ELSE LET ThisDist == DistanceToPoint(OpDetElem(o), point) IN
       IF ThisDist < ClosestDist
         THEN ClosestScan(o + 1, point, o, ThisDist)
         ELSE ClosestScan(o + 1, point, ClosestDet, ClosestDist)

RECURSIVE ClosestScanLast(_, _, _, _)
ClosestScanLast(o, point, ClosestDet, ClosestDist) ==
  IF o >= NOpDet THEN ClosestDet
  ELSE LET ThisDist == DistanceToPoint(OpDetElem(o), point) IN
       IF ThisDist <= ClosestDist
         THEN ClosestScanLast(o + 1, point, o, ThisDist)
         ELSE ClosestScanLast(o + 1, point, ClosestDet, ClosestDist)

GetClosestOpDet_LastWins(point) == ClosestScanLast(0, point, UIntMax, DoubleMax)

GetClosestOpDet(point) == ClosestScan(0, point, UIntMax, DoubleMax)

\* CryostatGeo::GetClosestOpDetPtr: status "null" is the nullptr result.
GetClosestOpDetPtr(point) ==
  LET iOpDet == GetClosestOpDet(point) IN
  IF ToDouble(iOpDet) = DoubleMax
    THEN [status |-> "null", index |-> iOpDet]
    ELSE OpDet(iOpDet)

InitOpDet ==
  /\ fOpDets \in UNION {[1..n -> [center : OpPos]] : n \in 0..MaxOpDets}
  /\ opRet = [op |-> "none"]
  /\ IdleLocator /\ IdleChannel /\ IdlePlanes /\ IdleWires /\ IdleVolumes /\ IdleCryostat

CallGetClosestOpDet ==
  \E point \in OpPos :
    /\ opRet' = [op |-> "GetClosestOpDet", point |-> point,
                 status |-> "ok", index |-> GetClosestOpDet(point)]
    /\ UNCHANGED <<fOpDets, locVars, chanVars, planeVars, wireVars, volVars, cryoVars>>

CallGetClosestOpDetPtr ==
  \E point \in OpPos :
    /\ opRet' = [op |-> "GetClosestOpDetPtr", point |-> point]
                   @@ GetClosestOpDetPtr(point)
    /\ UNCHANGED <<fOpDets, locVars, chanVars, planeVars, wireVars, volVars, cryoVars>>

NextOpDet == CallGetClosestOpDet \/ CallGetClosestOpDetPtr

SpecOpDet == InitOpDet /\ [][NextOpDet]_vars

\* C2: for a non-empty list GetClosestOpDet returns an index whose distance
\* is no larger than that of any other optical element, the lowest index
\* among those at the minimum distance; for an empty list it returns the
\* "none found" sentinel.
C2_ClosestIsMinimalLowestIndex ==
  opRet.op = "GetClosestOpDet" =>
    IF NOpDet = 0
      THEN opRet.index = UIntMax
      ELSE /\ opRet.index \in 0..(NOpDet - 1)
           /\ \A o \in 0..(NOpDet - 1) :
                /\ DistanceToPoint(OpDetElem(opRet.index), opRet.point)
                     <= DistanceToPoint(OpDetElem(o), opRet.point)
                /\ (DistanceToPoint(OpDetElem(o), opRet.point)
                      = DistanceToPoint(OpDetElem(opRet.index), opRet.point))
                   => opRet.index <= o

\* A scan over three elements in which the minimum distance is shared by two
\* of them and the first element is not at the minimum.
C2_Witness ==
  /\ opRet.op = "GetClosestOpDet"
  /\ NOpDet = 3
  /\ opRet.index = 1
  /\ DistanceToPoint(OpDetElem(2), opRet.point)
       = DistanceToPoint(OpDetElem(1), opRet.point)
  /\ DistanceToPoint(OpDetElem(0), opRet.point)
       > DistanceToPoint(OpDetElem(1), opRet.point)

\* C3 (as claimed): with no optical elements GetClosestOpDetPtr yields null
\* and raises nothing; with at least one it yields the element at the index
\* GetClosestOpDet chooses.
C3_PtrNullWhenEmpty ==
  opRet.op = "GetClosestOpDetPtr" =>
    IF NOpDet = 0
      THEN opRet.status = "null"
      ELSE opRet.status = "ok" /\ opRet.index = GetClosestOpDet(opRet.point)

(***************************************************************************)
(* AuxDetChannelMapAlg: name and channel lookup                            *)
(***************************************************************************)

\* Bound of the channel-map model: the longest channel vector.
MaxChannels == 2

ADIdx     == {0, 1}      \* keys of the two tables
SVIdx     == {0, 1}      \* sensitive-volume indices stored in the vectors
TableNames == {"volAuxDet0", "volAuxDet1"}
QueryNames == TableNames \cup {"volAuxDet7"}
\* AuxDetGeo lists a caller may pass; the functions ignore them.
AuxDetArgs == {<<>>, <<"adgeo">>}

SetMin(S) == CHOOSE m \in S : \A k \in S : m <= k

\* The channel vector whose entry for channel c is (c, svs[c]).
ChannelVector(svs) == [c \in DOMAIN svs |-> <<c - 1, svs[c]>>]

NoResult(kind) == [status |-> kind, index |-> 0, sv |-> 0]

\* for (auto itr : fADGeoToName): std::map iterates in ascending key order.
RECURSIVE NameScan(_, _)
NameScan(keys, detName) ==
  IF keys = {} THEN NoResult("NoSuchElement")
  ELSE LET first == SetMin(keys) IN
       IF fADGeoToName[first] = detName
         THEN [status |-> "ok", index |-> first, sv |-> 0]
         ELSE NameScan(keys \ {first}, detName)

\* AuxDetChannelMapAlg::ChannelToAuxDet
ChannelToAuxDet(auxDetsArg, detName, channel) ==
  NameScan(DOMAIN fADGeoToName, detName)

ChannelToSensitiveAuxDet_OffByOne(auxDetsArg, detName, channel) ==
  LET r == ChannelToAuxDet(auxDetsArg, detName, channel) IN
  IF r.status # "ok" THEN r
  ELSE IF r.index \in DOMAIN fADGeoToChannelAndSV
    THEN LET v == fADGeoToChannelAndSV[r.index] IN
         IF channel + 1 < Len(v)
           THEN [status |-> "ok", index |-> r.index, sv |-> v[channel + 1][2]]
           ELSE NoResult("ChannelOutOfRange")
    ELSE NoResult("NoSensitiveTable")

ChannelToSensitiveAuxDet_SizeFirst(auxDetsArg, detName, channel) ==
  LET r == ChannelToAuxDet(auxDetsArg, detName, channel) IN
  IF r.status # "ok" THEN r
  ELSE LET v == IF r.index \in DOMAIN fADGeoToChannelAndSV
                  THEN fADGeoToChannelAndSV[r.index] ELSE <<>> IN
       IF channel < Len(v)
         THEN [status |-> "ok", index |-> r.index, sv |-> v[channel + 1][2]]
         ELSE NoResult("ChannelOutOfRange")

\* AuxDetChannelMapAlg::ChannelToSensitiveAuxDet
ChannelToSensitiveAuxDet(auxDetsArg, detName, channel) ==
  LET r == ChannelToAuxDet(auxDetsArg, detName, channel) IN
  IF r.status # "ok" THEN r
  ELSE IF r.index \in DOMAIN fADGeoToChannelAndSV
    THEN LET v == fADGeoToChannelAndSV[r.index] IN
         IF channel < Len(v)
           THEN [status |-> "ok", index |-> r.index, sv |-> v[channel + 1][2]]
           ELSE NoResult("ChannelOutOfRange")
    ELSE NoResult("NoSensitiveTable")

InitChannel ==
  /\ fADGeoToName \in UNION {[D -> TableNames] : D \in SUBSET ADIdx}
  /\ fADGeoToChannelAndSV \in
       UNION {[D -> {ChannelVector(svs) :
                       svs \in UNION {[1..n -> SVIdx] : n \in 0..MaxChannels}}]
                : D \in SUBSET ADIdx}
  /\ chanRet \in [op : {"none"}, arg : AuxDetArgs, name : QueryNames,
                  channel : 0..(MaxChannels + 1)]
  /\ IdleLocator /\ IdleOpDet /\ IdlePlanes /\ IdleWires /\ IdleVolumes /\ IdleCryostat

\* The arguments of the call a behaviour makes are drawn by InitChannel.
ChanArgs == [arg |-> chanRet.arg, name |-> chanRet.name,
             channel |-> chanRet.channel]

CallChannelToAuxDet ==
  /\ chanRet' = [op |-> "ChannelToAuxDet"] @@ ChanArgs
                   @@ ChannelToAuxDet(chanRet.arg, chanRet.name, chanRet.channel)
  /\ UNCHANGED <<fADGeoToName, fADGeoToChannelAndSV,
                 locVars, opVars, planeVars, wireVars, volVars, cryoVars>>

CallChannelToSensitiveAuxDet ==
  /\ chanRet' = [op |-> "ChannelToSensitiveAuxDet"] @@ ChanArgs
                   @@ ChannelToSensitiveAuxDet(chanRet.arg, chanRet.name,
                                               chanRet.channel)
  /\ UNCHANGED <<fADGeoToName, fADGeoToChannelAndSV,
                 locVars, opVars, planeVars, wireVars, volVars, cryoVars>>

NextChannel == CallChannelToAuxDet \/ CallChannelToSensitiveAuxDet

SpecChannel == InitChannel /\ [][NextChannel]_vars

\* The keys of the name table holding the name, and the element a name
\* resolves to: the entry with the lowest key.
KeysNamed(detName) == {k \in DOMAIN fADGeoToName : fADGeoToName[k] = detName}
Resolved(detName)  == SetMin(KeysNamed(detName))
HasVector(k)       == k \in DOMAIN fADGeoToChannelAndSV

\* C4: for a name in the name table whose element has a channel vector of
\* size N >= 1, ChannelToSensitiveAuxDet(name, c) succeeds for every c in
\* 0..N-1 with (index of the element, sensitive index stored at position c),
\* and ChannelToSensitiveAuxDet(name, N) fails with ChannelOutOfRange.
C4_ChannelRange ==
  (/\ chanRet.op = "ChannelToSensitiveAuxDet"
   /\ KeysNamed(chanRet.name) # {}
   /\ HasVector(Resolved(chanRet.name))
   /\ Len(fADGeoToChannelAndSV[Resolved(chanRet.name)]) >= 1)
  => LET k == Resolved(chanRet.name)
         v == fADGeoToChannelAndSV[k]
     IN /\ chanRet.channel < Len(v) =>
             /\ chanRet.status = "ok"
             /\ chanRet.index = k
             /\ chanRet.sv = v[chanRet.channel + 1][2]
        /\ chanRet.channel = Len(v) => chanRet.status = "ChannelOutOfRange"

\* The last channel of a two-channel vector is found, on an element that is
\* not the first key of the table.
C4_Witness ==
  /\ chanRet.op = "ChannelToSensitiveAuxDet"
  /\ chanRet.status = "ok"
  /\ chanRet.index = 1
  /\ chanRet.channel = 1
  /\ Len(fADGeoToChannelAndSV[1]) = 2
  /\ chanRet.sv = 1

\* C5: a failure of ChannelToSensitiveAuxDet is NoSuchElement if no table
\* entry has the name (whatever the channel); otherwise NoSensitiveTable if
\* the resolved element has no vector in the channel table; otherwise
\* ChannelOutOfRange if channel >= the vector's size.  An element without a
\* vector never yields ChannelOutOfRange.  ChannelToAuxDet resolves a name to
\* a table entry with that name whatever the channel and the list passed.
C5_FailureKinds ==
  /\ chanRet.op = "ChannelToSensitiveAuxDet" =>
       /\ chanRet.status \in
            {"ok", "NoSuchElement", "NoSensitiveTable", "ChannelOutOfRange"}
       /\ chanRet.status = "NoSuchElement" <=> KeysNamed(chanRet.name) = {}
       /\ KeysNamed(chanRet.name) # {} =>
            /\ chanRet.status = "NoSensitiveTable"
                 <=> ~HasVector(Resolved(chanRet.name))
            /\ chanRet.status = "ChannelOutOfRange"
                 <=> /\ HasVector(Resolved(chanRet.name))
                     /\ chanRet.channel
                          >= Len(fADGeoToChannelAndSV[Resolved(chanRet.name)])
  /\ chanRet.op = "ChannelToAuxDet" =>
       IF KeysNamed(chanRet.name) = {}
         THEN chanRet.status = "NoSuchElement"
         ELSE /\ chanRet.status = "ok"
              /\ chanRet.index = Resolved(chanRet.name)
              /\ fADGeoToName[chanRet.index] = chanRet.name

\* A name held by two entries resolves, and its element has no vector while
\* the other entry of that name has one: the failure is NoSensitiveTable for
\* a channel that would be out of range of any vector.
C5_Witness ==
  /\ chanRet.op = "ChannelToSensitiveAuxDet"
  /\ chanRet.status = "NoSensitiveTable"
  /\ chanRet.channel = MaxChannels + 1
  /\ KeysNamed(chanRet.name) = {0, 1}
  /\ ~HasVector(0) /\ HasVector(1)

(***************************************************************************)
(* AuxDetChannelMapAlg: containment queries                                *)
(***************************************************************************)

\* Bounds of the containment-query model.
MaxAuxDets == 2
MaxPointX  == 3

\* Sensitive volumes and auxiliary detectors.  orgX is the world position of
\* the volume's local origin; Length > 0, as for every real volume.
SensShapes ==
  { [orgX |-> 0, Length |-> 4, HalfHeight |-> 1, HalfWidth1 |-> 1, HalfWidth2 |-> 1],
    [orgX |-> 2, Length |-> 4, HalfHeight |-> 1, HalfWidth1 |-> 1, HalfWidth2 |-> 2] }
SensLists == UNION {[1..n -> SensShapes] : n \in 0..2}
AuxDetShapes ==
  { [orgX |-> 0, Length |-> 4, HalfHeight |-> 1, HalfWidth1 |-> 2, HalfWidth2 |-> 2],
    [orgX |-> 1, Length |-> 4, HalfHeight |-> 1, HalfWidth1 |-> 1, HalfWidth2 |-> 3] }
AuxDetGeos ==
  { [orgX |-> g.orgX, Length |-> g.Length, HalfHeight |-> g.HalfHeight,
     HalfWidth1 |-> g.HalfWidth1, HalfWidth2 |-> g.HalfWidth2, sens |-> sl]
      : g \in AuxDetShapes, sl \in SensLists }
Points == [x : (-MaxPointX)..MaxPointX, y : {0, 2}, z : {-2, 0, 3}]
Tolerances == {0, 1}
\* What the caller's ad holds before a call: no index of any list.
AdBefore == MaxAuxDets + 5

\* AuxDetGeo::WorldToLocal / AuxDetSensitiveGeo::WorldToLocal: the volumes are
\* translated along x and not rotated.
WorldToLocal(g, point) == [x |-> point.x - g.orgX, y |-> point.y, z |-> point.z]

\* The z-dependent term localPoint[2] * (HalfCenterWidth - HalfWidth2) /
\* (0.5 * Length) equals z * (HalfWidth1 - HalfWidth2) / Length; both sides of
\* the x comparisons are multiplied by 2 * Length, and of the z comparisons by
\* 2, to stay in the integers.
BandSlope2L_Swapped(g, lp) == 2 * lp.z * (g.HalfWidth2 - g.HalfWidth1)

BandSlope2L(g, lp) == 2 * lp.z * (g.HalfWidth1 - g.HalfWidth2)
HalfCenterWidth2L(g) == g.Length * (g.HalfWidth1 + g.HalfWidth2)

\* The condition of NearestAuxDet on the local point.
AuxDetBand(g, lp, tolerance) ==
  /\ 2 * lp.z >= -g.Length - 2 * tolerance
  /\ 2 * lp.z <= g.Length + 2 * tolerance
  /\ lp.y >= -g.HalfHeight - tolerance
  /\ lp.y <= g.HalfHeight + tolerance
  /\ 2 * g.Length * lp.x >=
       -HalfCenterWidth2L(g) + BandSlope2L(g, lp) - 2 * g.Length * tolerance
  /\ 2 * g.Length * lp.x <=
       HalfCenterWidth2L(g) - BandSlope2L(g, lp) + 2 * g.Length * tolerance

\* The condition of NearestSensitiveAuxDet on the local point.
SensitiveBand(g, lp, tolerance) ==
  /\ 2 * lp.z >= -(g.Length + 2 * tolerance)
  /\ 2 * lp.z <= g.Length + 2 * tolerance
  /\ lp.y >= -(g.HalfHeight + tolerance)
  /\ lp.y <= g.HalfHeight + tolerance
  /\ 2 * g.Length * lp.x >=
       -HalfCenterWidth2L(g) + BandSlope2L(g, lp) - 2 * g.Length * tolerance
  /\ 2 * g.Length * lp.x <=
       HalfCenterWidth2L(g) - BandSlope2L(g, lp) + 2 * g.Length * tolerance

\* The loop of NearestAuxDet from position a on, and the throw after it.
RECURSIVE AuxDetScan(_, _, _, _)
AuxDetScan(a, point, dets, tolerance) ==
  IF a >= Len(dets)
    THEN [status |-> "ElementNotFound", category |-> "AuxDetChannelMapAlg",
          index |-> UIntMax]
  ELSE IF AuxDetBand(dets[a + 1], WorldToLocal(dets[a + 1], point), tolerance)
    THEN [status |-> "ok", category |-> "", index |-> a]
    ELSE AuxDetScan(a + 1, point, dets, tolerance)

RECURSIVE AuxDetScanLast(_, _, _, _)
AuxDetScanLast(a, point, dets, tolerance) ==
  IF a >= Len(dets)
    THEN [status |-> "ElementNotFound", category |-> "AuxDetChannelMapAlg",
          index |-> UIntMax]
  ELSE LET later == AuxDetScanLast(a + 1, point, dets, tolerance) IN
       IF later.status = "ok" THEN later
       ELSE IF AuxDetBand(dets[a + 1], WorldToLocal(dets[a + 1], point), tolerance)
         THEN [status |-> "ok", category |-> "", index |-> a]
         ELSE later

NearestAuxDet_LastMatch(point, dets, tolerance) ==
  AuxDetScanLast(0, point, dets, tolerance)

\* AuxDetChannelMapAlg::NearestAuxDet
NearestAuxDet(point, dets, tolerance) == AuxDetScan(0, point, dets, tolerance)

\* The loop of NearestSensitiveAuxDet over adg's sensitive volumes.
RECURSIVE SensitiveScan(_, _, _, _)
SensitiveScan(a, point, adg, tolerance) ==
  IF a >= Len(adg.sens)
    THEN [status |-> "ElementNotFound", category |-> "Geometry", index |-> UIntMax]
  ELSE IF SensitiveBand(adg.sens[a + 1], WorldToLocal(adg.sens[a + 1], point),
                        tolerance)
    THEN [status |-> "ok", category |-> "", index |-> a]
    ELSE SensitiveScan(a + 1, point, adg, tolerance)

NearestSensitiveAuxDet_TriesSiblings(point, dets, adRef, tolerance) ==
  LET first == NearestAuxDet(point, dets, tolerance)
      good == {a \in 0..(Len(dets) - 1) :
                 /\ AuxDetBand(dets[a + 1], WorldToLocal(dets[a + 1], point), tolerance)
                 /\ SensitiveScan(0, point, dets[a + 1], tolerance).status = "ok"}
      pick == IF good = {} THEN first.index ELSE SetMin(good)
  IN IF first.status # "ok"
       THEN first @@ [ad |-> adRef]
       ELSE SensitiveScan(0, point, dets[pick + 1], tolerance) @@ [ad |-> pick]

\* AuxDetChannelMapAlg::NearestSensitiveAuxDet; "ad" is the value the
\* reference parameter holds when the call ends, by return or by throw.
NearestSensitiveAuxDet(point, dets, adRef, tolerance) ==
  LET first == NearestAuxDet(point, dets, tolerance) IN
  IF first.status # "ok"
    THEN first @@ [ad |-> adRef]
    ELSE SensitiveScan(0, point, dets[first.index + 1], tolerance)
           @@ [ad |-> first.index]

InitLocator ==
  /\ auxDets \in UNION {[1..n -> AuxDetGeos] : n \in 0..MaxAuxDets}
  /\ ad = AdBefore
  /\ locRet \in [op : {"none"}, point : Points, tolerance : Tolerances]
  /\ IdleChannel /\ IdleOpDet /\ IdlePlanes /\ IdleWires /\ IdleVolumes /\ IdleCryostat

\* The arguments of the call a behaviour makes are drawn by InitLocator.
LocArgs == [point |-> locRet.point, tolerance |-> locRet.tolerance]

CallNearestAuxDet ==
  /\ locRet' = [op |-> "NearestAuxDet", adBefore |-> ad] @@ LocArgs
                 @@ NearestAuxDet(locRet.point, auxDets, locRet.tolerance)
  /\ UNCHANGED <<auxDets, ad, chanVars, opVars, planeVars, wireVars, volVars, cryoVars>>

CallNearestSensitiveAuxDet ==
  LET r == NearestSensitiveAuxDet(locRet.point, auxDets, ad, locRet.tolerance) IN
  /\ locRet' = [op |-> "NearestSensitiveAuxDet", adBefore |-> ad] @@ LocArgs
                 @@ [status |-> r.status, category |-> r.category,
                     index |-> r.index]
  /\ ad' = r.ad
  /\ UNCHANGED <<auxDets, chanVars, opVars, planeVars, wireVars, volVars, cryoVars>>

NextLocator == CallNearestAuxDet \/ CallNearestSensitiveAuxDet

SpecLocator == InitLocator /\ [][NextLocator]_vars

\* The band test of the claims, in the volume's own units: z within
\* Length/2 + tolerance, y within HalfHeight + tolerance, and x within the
\* z-interpolated half-width + tolerance, where the half-width is
\* ((HalfWidth1 + HalfWidth2)/2 - z (HalfWidth1 - HalfWidth2)/Length).
PassesBandTest(g, point, tolerance) ==
  LET lx == point.x - g.orgX
      halfWidthTimes2L == g.Length * (g.HalfWidth1 + g.HalfWidth2)
                            - 2 * point.z * (g.HalfWidth1 - g.HalfWidth2)
  IN /\ 2 * Abs(point.z) <= g.Length + 2 * tolerance
     /\ Abs(point.y) <= g.HalfHeight + tolerance
     /\ 2 * g.Length * lx <= halfWidthTimes2L + 2 * g.Length * tolerance
     /\ 2 * g.Length * lx >= -(halfWidthTimes2L + 2 * g.Length * tolerance)

Passing(point, tolerance) ==
  {a \in 0..(Len(auxDets) - 1) : PassesBandTest(auxDets[a + 1], point, tolerance)}

\* C1: NearestAuxDet returns the smallest index, in sibling order, whose
\* element passes the band test, also when a later sibling passes it too, and
\* it fails with the element-not-found error exactly when no sibling passes.
C1_FirstMatch ==
  locRet.op = "NearestAuxDet" =>
    LET hits == Passing(locRet.point, locRet.tolerance) IN
    /\ locRet.status \in {"ok", "ElementNotFound"}
    /\ locRet.status = "ElementNotFound" <=> hits = {}
    /\ locRet.status = "ok" =>
         /\ locRet.index \in hits
         /\ \A a \in hits : locRet.index <= a

\* Two siblings pass the test, only thanks to the tolerance, on a point off
\* the center plane of a trapezoid; the first one is returned.
C1_Witness ==
  /\ locRet.op = "NearestAuxDet"
  /\ locRet.status = "ok"
  /\ locRet.index = 0
  /\ Passing(locRet.point, locRet.tolerance) = {0, 1}
  /\ Passing(locRet.point, 0) = {}
  /\ auxDets[1].HalfWidth1 # auxDets[1].HalfWidth2
  /\ locRet.point.z # 0

\* The sensitive sub-elements of g that pass the band test.
SensPassing(g, point, tolerance) ==
  {a \in 0..(Len(g.sens) - 1) : PassesBandTest(g.sens[a + 1], point, tolerance)}

TwoStage == locRet.op = "NearestSensitiveAuxDet"

\* C12 (as claimed): NearestSensitiveAuxDet has no partial success: either it
\* returns a sensitive index and ad is the containing element's index, or it
\* fails and ad is what it was before the call, also when it is the second
\* stage that fails.
C12_NoPartialSuccess ==
  TwoStage =>
    IF locRet.status = "ok"
      THEN /\ Passing(locRet.point, locRet.tolerance) # {}
           /\ ad = SetMin(Passing(locRet.point, locRet.tolerance))
      ELSE ad = locRet.adBefore

\* C13: NearestSensitiveAuxDet searches the sub-elements of the first sibling
\* that contains the point and of no other: it succeeds exactly when one of
\* them passes the band test at the given tolerance, with the lowest such
\* sub-element, and fails with element-not-found otherwise, also when a later
\* sibling contains the point and has a sub-element that passes.
C13_OnlyChosenElement ==
  TwoStage =>
    LET hits == Passing(locRet.point, locRet.tolerance) IN
    IF hits = {}
      THEN locRet.status = "ElementNotFound"
      ELSE LET chosen == auxDets[SetMin(hits) + 1]
               subs == SensPassing(chosen, locRet.point, locRet.tolerance)
           IN IF subs = {}
                THEN locRet.status = "ElementNotFound"
                ELSE /\ locRet.status = "ok"
                     /\ locRet.index = SetMin(subs)

\* The first sibling contains the point and has sub-elements, none of which
\* passes, also not at a wider tolerance; the second sibling contains the
\* point too and has a sub-element that passes: the query fails.
C13_Witness ==
  /\ TwoStage
  /\ locRet.status = "ElementNotFound"
  /\ Passing(locRet.point, locRet.tolerance) = {0, 1}
  /\ Len(auxDets[1].sens) = 2
  /\ SensPassing(auxDets[1], locRet.point, locRet.tolerance) = {}
  /\ locRet.tolerance = 0
  /\ SensPassing(auxDets[1], locRet.point, 1) # {}
  /\ SensPassing(auxDets[2], locRet.point, locRet.tolerance) # {}

\* Two sub-elements of the chosen element pass; the lower index is returned.
C13_WitnessLowest ==
  /\ TwoStage
  /\ locRet.status = "ok"
  /\ locRet.index = 0
  /\ SensPassing(auxDets[1], locRet.point, locRet.tolerance) = {0, 1}

(***************************************************************************)
(* The band test on one volume: a specification that hands the queries a   *)
(* single auxiliary detector whose one sensitive volume has its shape.     *)
(***************************************************************************)

\* Bounds of the band model.
MaxHalfWidth == 3
MaxBandX     == 4

BandVolumes ==
  [orgX : {0}, Length : {2, 4}, HalfHeight : {1},
   HalfWidth1 : 1..MaxHalfWidth, HalfWidth2 : 1..MaxHalfWidth]
BandPoints == [x : (-MaxBandX)..MaxBandX, y : {0, 2}, z : (-3)..3]

InitBand ==
  /\ \E g \in BandVolumes :
       auxDets = << [orgX |-> g.orgX, Length |-> g.Length,
                     HalfHeight |-> g.HalfHeight, HalfWidth1 |-> g.HalfWidth1,
                     HalfWidth2 |-> g.HalfWidth2, sens |-> <<g>>] >>
  /\ ad = AdBefore
  /\ locRet \in [op : {"none"}, point : BandPoints, tolerance : Tolerances]
  /\ IdleChannel /\ IdleOpDet /\ IdlePlanes /\ IdleWires /\ IdleVolumes /\ IdleCryostat

SpecBand == InitBand /\ [][NextLocator]_vars

\* 2 * Length times the half-width that is HalfWidth1 at z = -Length/2,
\* HalfWidth2 at z = +Length/2 and linear in z between and beyond.
HalfWidthAt2L(g, z) ==
  2 * g.Length * g.HalfWidth1 + (2 * z + g.Length) * (g.HalfWidth2 - g.HalfWidth1)

\* C14: the allowed half-width in local x, before the tolerance is added, is
\* linear in local z, HalfWidth1 at z = -Length/2, HalfWidth2 at z =
\* +Length/2 and their mean at z = 0; the band is symmetric about x = 0; with
\* HalfWidth1 = HalfWidth2 it is that of a box; the element query and the
\* sub-element query use the same bounds.
C14_LinearBand ==
  (locRet.op \in {"NearestAuxDet", "NearestSensitiveAuxDet"} /\ Len(auxDets) = 1) =>
    LET g == auxDets[1]
        p == locRet.point
        tol == locRet.tolerance
        lx == p.x - g.orgX
        inZY == /\ 2 * Abs(p.z) <= g.Length + 2 * tol
                /\ Abs(p.y) <= g.HalfHeight + tol
    IN /\ locRet.status = "ok"
            <=> (inZY /\ 2 * g.Length * Abs(lx)
                           <= HalfWidthAt2L(g, p.z) + 2 * g.Length * tol)
       /\ 2 * p.z = -g.Length =>
            (locRet.status = "ok" <=> (inZY /\ Abs(lx) <= g.HalfWidth1 + tol))
       /\ 2 * p.z = g.Length =>
            (locRet.status = "ok" <=> (inZY /\ Abs(lx) <= g.HalfWidth2 + tol))
       /\ p.z = 0 =>
            (locRet.status = "ok"
               <=> (inZY /\ 2 * Abs(lx) <= g.HalfWidth1 + g.HalfWidth2 + 2 * tol))
       /\ g.HalfWidth1 = g.HalfWidth2 =>
            (locRet.status = "ok" <=> (inZY /\ Abs(lx) <= g.HalfWidth1 + tol))

\* The sub-element query accepts a point on the +Length/2 face of a widening
\* trapezoid at x = -HalfWidth2, outside HalfWidth1, without tolerance.
C14_Witness ==
  /\ locRet.op = "NearestSensitiveAuxDet"
  /\ locRet.status = "ok"
  /\ locRet.tolerance = 0
  /\ auxDets[1].HalfWidth1 < auxDets[1].HalfWidth2
  /\ 2 * locRet.point.z = auxDets[1].Length
  /\ locRet.point.x - auxDets[1].orgX = -auxDets[1].HalfWidth2

\* The element query rejects the same x on the -Length/2 face.
C14_WitnessNarrowFace ==
  /\ locRet.op = "NearestAuxDet"
  /\ locRet.status = "ElementNotFound"
  /\ locRet.tolerance = 0
  /\ auxDets[1].HalfWidth1 < auxDets[1].HalfWidth2
  /\ 2 * locRet.point.z = -auxDets[1].Length
  /\ locRet.point.y = 0
  /\ locRet.point.x - auxDets[1].orgX = auxDets[1].HalfWidth2

(***************************************************************************)
(* GeoObjectSorterStandard: comparators and std::sort                      *)
(***************************************************************************)

\* Tolerance when comparing distances in geometry, in units of 0.001 cm.
DistanceTol == 1

\* Bounds of the sorter models: the largest number of siblings.
MaxPlanes == 3
MaxWires  == 3

Reverse(seq) == [i \in 1..Len(seq) |-> seq[Len(seq) + 1 - i]]
Range(seq) == {seq[i] : i \in 1..Len(seq)}
IndexPermutations(n) == {f \in [1..n -> 1..n] : \A i, j \in 1..n : f[i] = f[j] => i = j}
\* The sequences of n distinct elements of S.
Arrangements(S, n) == {q \in [1..n -> S] : \A i, j \in 1..n : q[i] = q[j] => i = j}

sortPlaneStandard_Ascending(p1, p2) ==
  IF Abs(p1.x - p2.x) > DistanceTol THEN p1.x < p2.x
  ELSE IF Abs(p1.z - p2.z) > DistanceTol THEN p1.z < p2.z
  ELSE p1.y < p2.y

\* sortPlaneStandard; a plane is the world position of its local origin.
sortPlaneStandard(p1, p2) ==
  IF Abs(p1.x - p2.x) > DistanceTol THEN p1.x > p2.x
  ELSE IF Abs(p1.z - p2.z) > DistanceTol THEN p1.z < p2.z
  ELSE p1.y < p2.y

\* sortWireStandard; a wire is the world position of its center.
sortWireStandard(w1, w2) ==
  IF Abs(w1.z - w2.z) > DistanceTol THEN w1.z < w2.z
  ELSE IF Abs(w1.y - w2.y) > DistanceTol THEN w1.y < w2.y
  ELSE w1.x < w2.x

\* A volume name is the sequence of its characters.
Digits == <<"0", "1", "2", "3", "4", "5", "6", "7", "8", "9">>
IsDigit(c) == \E d \in 1..10 : Digits[d] = c
DigitValue(c) == (CHOOSE d \in 1..10 : Digits[d] = c) - 1

\* std::string::substr(pos, n), for pos <= size().
Substr(str, pos, n) ==
  SubSeq(str, pos + 1, IF pos + n < Len(str) THEN pos + n ELSE Len(str))

\* atoi on a string without leading white space or sign: the value of the
\* leading decimal digits, 0 when there are none.
RECURSIVE AtoiFrom(_, _, _)
AtoiFrom(str, i, acc) ==
  IF i > Len(str) \/ ~IsDigit(str[i]) THEN acc
  ELSE AtoiFrom(str, i + 1, 10 * acc + DigitValue(str[i]))
Atoi(str) == AtoiFrom(str, 1, 0)

\* sortAuxDetStandard; an auxiliary detector is the name of its volume.
sortAuxDetStandard(ad1, ad2) ==
  LET ad1Num == Atoi(Substr(ad1, 9, Len(ad1)))
      ad2Num == Atoi(Substr(ad2, 9, Len(ad2)))
  IN ad1Num < ad2Num

\* sortAuxDetSensitiveStandard
sortAuxDetSensitiveStandard(ad1, ad2) ==
  LET ad1Num == Atoi(Substr(ad1, 9, Len(ad1)))
      ad2Num == Atoi(Substr(ad2, 9, Len(ad2)))
  IN ad1Num < ad2Num

\* sortCryoStandard; a cryostat is the world position of its local origin.
sortCryoStandard(c1, c2) == c1.x < c2.x

\* sortTPCStandard; a TPC is the world position of its local origin.
sortTPCStandard(t1, t2) == t1.x < t2.x

\* The comparison function handed to std::sort, by name.
Before(comp, a, b) ==
  CASE comp = "sortPlaneStandard" -> sortPlaneStandard(a, b)
    [] comp = "sortWireStandard" -> sortWireStandard(a, b)
    [] comp = "sortCryoStandard" -> sortCryoStandard(a, b)
    [] comp = "sortTPCStandard" -> sortTPCStandard(a, b)
    [] comp = "sortAuxDetStandard" -> sortAuxDetStandard(a, b)
    [] comp = "sortAuxDetSensitiveStandard" -> sortAuxDetSensitiveStandard(a, b)

\* The requirement of std::sort on its comparison: a strict weak ordering of
\* the values sorted.
IsStrictWeakOrder(S, comp) ==
  /\ \A a \in S : ~Before(comp, a, a)
  /\ \A a, b, c \in S :
       Before(comp, a, b) /\ Before(comp, b, c) => Before(comp, a, c)
  /\ \A a, b, c \in S :
       (/\ ~Before(comp, a, b) /\ ~Before(comp, b, a)
        /\ ~Before(comp, b, c) /\ ~Before(comp, c, b))
         => (~Before(comp, a, c) /\ ~Before(comp, c, a))

\* std::sort(first, last, comp): the range is permuted so that no element
\* compares before an element placed ahead of it; the order of equivalent
\* elements is unspecified.  With a comparison that is no strict weak
\* ordering the behaviour is undefined: any arrangement may come out.
StdSort(seq, comp) ==
  LET perms == {[i \in 1..Len(seq) |-> seq[f[i]]] : f \in IndexPermutations(Len(seq))}
  IN IF IsStrictWeakOrder(Range(seq), comp)
       THEN {q \in perms :
               \A i, j \in 1..Len(q) : i < j => ~Before(comp, q[j], q[i])}
       ELSE perms

\* geo::DriftDirection_t (kPosX = kPos, kNegX = kNeg).
DriftDirections == {"kUnknownDrift", "kPosX", "kNegX"}

SortPlanes_SortsUnknown(pgeoIn, driftDir) ==
  IF driftDir = "kPosX"
    THEN {[status |-> "ok", pgeo |-> Reverse(q)]
            : q \in StdSort(Reverse(pgeoIn), "sortPlaneStandard")}
    ELSE {[status |-> IF driftDir = "kNegX" THEN "ok" ELSE "UnknownDriftDirection",
           pgeo |-> q] : q \in StdSort(pgeoIn, "sortPlaneStandard")}

\* GeoObjectSorterStandard::SortPlanes: the outcomes of a call, each the
\* status and the vector as the call leaves it.
SortPlanes(pgeoIn, driftDir) ==
  IF driftDir = "kPosX"
    THEN {[status |-> "ok", pgeo |-> Reverse(q)]
            : q \in StdSort(Reverse(pgeoIn), "sortPlaneStandard")}
  ELSE IF driftDir = "kNegX"
    THEN {[status |-> "ok", pgeo |-> q] : q \in StdSort(pgeoIn, "sortPlaneStandard")}
  ELSE IF driftDir = "kUnknownDrift"
    THEN {[status |-> "UnknownDriftDirection", pgeo |-> pgeoIn]}
  ELSE {[status |-> "ok", pgeo |-> pgeoIn]}

\* GeoObjectSorterStandard::SortWires
SortWires(wgeoIn) == StdSort(wgeoIn, "sortWireStandard")

PlanePositions == [x : {0, 1, 2, 4}, y : {0, 1}, z : {0, 2}]
WirePositions  == [x : {0}, y : {0, 1, 2, 4}, z : {0, 1, 2}]

InitPlanes ==
  /\ pgeo \in UNION {Arrangements(PlanePositions, n) : n \in 0..MaxPlanes}
  /\ planeRet = [op |-> "none"]
  /\ IdleLocator /\ IdleChannel /\ IdleOpDet /\ IdleWires /\ IdleVolumes /\ IdleCryostat

\* The planes of a TPC are sorted once, when the geometry is set up.
CallSortPlanes ==
  /\ planeRet.op = "none"
  /\ \E driftDir \in DriftDirections :
       \E out \in SortPlanes(pgeo, driftDir) :
         /\ pgeo' = out.pgeo
         /\ planeRet' = [op |-> "SortPlanes", driftDir |-> driftDir,
                         before |-> pgeo, status |-> out.status]
  /\ UNCHANGED <<locVars, chanVars, opVars, wireVars, volVars, cryoVars>>

NextPlanes == CallSortPlanes

SpecPlanes == InitPlanes /\ [][NextPlanes]_vars

InitWires ==
  /\ wgeo \in UNION {Arrangements(WirePositions, n) : n \in 0..MaxWires}
  /\ wireRet = [op |-> "none"]
  /\ IdleLocator /\ IdleChannel /\ IdleOpDet /\ IdlePlanes /\ IdleVolumes /\ IdleCryostat

\* The wires of a plane are sorted once, when the geometry is set up.
CallSortWires ==
  /\ wireRet.op = "none"
  /\ \E out \in SortWires(wgeo) :
       /\ wgeo' = out
       /\ wireRet' = [op |-> "SortWires", before |-> wgeo]
  /\ UNCHANGED <<locVars, chanVars, opVars, planeVars, volVars, cryoVars>>

NextWires == CallSortWires

SpecWires == InitWires /\ [][NextWires]_vars

Sorted == planeRet.op = "SortPlanes"
KnownDrift == planeRet.driftDir \in {"kPosX", "kNegX"}
PlaneIdx == 1..Len(pgeo)
SameX(p, q) == Abs(p.x - q.x) <= DistanceTol
SameZ(p, q) == Abs(p.z - q.z) <= DistanceTol

\* C6: after SortPlanes with a known drift direction, planes whose world X
\* differ pairwise by more than the tolerance are indexed along the drift
\* direction: strictly decreasing X for decreasing-X drift (kNegX), strictly
\* increasing X for increasing-X drift (kPosX).
C6_IndexAlongDrift ==
  (/\ Sorted /\ KnownDrift
   /\ \A i, j \in PlaneIdx : i # j => ~SameX(pgeo[i], pgeo[j]))
  => /\ Range(pgeo) = Range(planeRet.before)
     /\ Len(pgeo) = Len(planeRet.before)
     /\ \A i, j \in PlaneIdx : i < j =>
          IF planeRet.driftDir = "kNegX"
            THEN pgeo[i].x > pgeo[j].x
            ELSE pgeo[i].x < pgeo[j].x

\* Three planes at X = 0, 2, 4, handed over in increasing X, come out in
\* decreasing X under decreasing-X drift.
C6_Witness ==
  /\ Sorted /\ planeRet.driftDir = "kNegX"
  /\ Len(pgeo) = 3
  /\ <<planeRet.before[1].x, planeRet.before[2].x, planeRet.before[3].x>>
       = <<0, 2, 4>>
  /\ <<pgeo[1].x, pgeo[2].x, pgeo[3].x>> = <<4, 2, 0>>

\* The same planes under increasing-X drift, handed over in decreasing X.
C6_WitnessPosX ==
  /\ Sorted /\ planeRet.driftDir = "kPosX"
  /\ Len(pgeo) = 3
  /\ <<planeRet.before[1].x, planeRet.before[2].x, planeRet.before[3].x>>
       = <<4, 2, 0>>
  /\ <<pgeo[1].x, pgeo[2].x, pgeo[3].x>> = <<0, 2, 4>>

\* C7 (as claimed): after SortPlanes with either known drift direction, two
\* planes whose X differ by at most the tolerance are in ascending Z order,
\* and in ascending Y order if their Z differ by at most the tolerance too.
C7_TieBreakAscending ==
  (Sorted /\ KnownDrift) =>
    \A i, j \in PlaneIdx :
      (i < j /\ SameX(pgeo[i], pgeo[j])) =>
        IF SameZ(pgeo[i], pgeo[j])
          THEN pgeo[i].y <= pgeo[j].y
          ELSE pgeo[i].z < pgeo[j].z

\* C10: SortPlanes with an unknown drift direction fails with the
\* unknown-drift-direction error for every collection and leaves the planes
\* in the order they had; with a known drift direction it does not fail.
C10_UnknownDriftFails ==
  Sorted =>
    IF planeRet.driftDir = "kUnknownDrift"
      THEN planeRet.status = "UnknownDriftDirection" /\ pgeo = planeRet.before
      ELSE planeRet.status = "ok"

\* The call fails on three planes that a sort would have reordered.
C10_Witness ==
  /\ Sorted /\ planeRet.driftDir = "kUnknownDrift"
  /\ planeRet.status = "UnknownDriftDirection"
  /\ Len(pgeo) = 3
  /\ <<pgeo[1].x, pgeo[2].x, pgeo[3].x>> = <<0, 4, 2>>

\* C8 (as claimed): the wire ordering is a strict total order on wires with
\* distinct centers (irreflexive, asymmetric, transitive, total), and in the
\* sorted sequence no wire compares before a wire placed ahead of it.
C8_WireStrictTotalOrder ==
  wireRet.op = "SortWires" =>
    LET W == Range(wgeo) IN
    /\ \A a \in W : ~sortWireStandard(a, a)
    /\ \A a, b \in W : sortWireStandard(a, b) => ~sortWireStandard(b, a)
    /\ \A a, b, c \in W :
         sortWireStandard(a, b) /\ sortWireStandard(b, c) => sortWireStandard(a, c)
    /\ \A a, b \in W : a # b => sortWireStandard(a, b) \/ sortWireStandard(b, a)
    /\ \A i, j \in 1..Len(wgeo) : i < j => ~sortWireStandard(wgeo[j], wgeo[i])

(***************************************************************************)
(* GeoObjectSorterStandard: cryostats, TPCs, auxiliary detectors           *)
(***************************************************************************)

\* Bounds: the largest number of siblings, and of sorts of one collection.
MaxSiblings == 2
MaxSorts    == 2

SortAuxDets(adgeo) == StdSort(adgeo, "sortAuxDetStandard")
SortAuxDetSensitive(adsgeo) == StdSort(adsgeo, "sortAuxDetSensitiveStandard")
SortCryostats(cgeo) == StdSort(cgeo, "sortCryoStandard")
SortTPCs(tgeo) == StdSort(tgeo, "sortTPCStandard")

VolAuxDet == <<"v", "o", "l", "A", "u", "x", "D", "e", "t">>
VolAuxDetSensitive == VolAuxDet \o <<"S", "e", "n", "s", "i", "t", "i", "v", "e">>
AuxDetNames == {VolAuxDet \o <<"0">>, VolAuxDet \o <<"1">>, VolAuxDet \o <<"1", "0">>,
                VolAuxDet \o <<"0", "1">>}
AuxDetSensitiveNames == {VolAuxDetSensitive \o <<"0">>, VolAuxDetSensitive \o <<"1">>,
                         VolAuxDetSensitive \o <<"2">>}
VolumePositions == [x : {0, 1}, y : {0, 1}, z : {0}]

Kinds == {"Cryostat", "TPC", "AuxDet", "AuxDetSensitive"}
Loads == {1, 2}
Siblings(kind) ==
  CASE kind = "AuxDet" -> AuxDetNames
    [] kind = "AuxDetSensitive" -> AuxDetSensitiveNames
    [] OTHER -> VolumePositions

\* The same siblings are handed to the sorter in two arrangements, as by two
\* loads of one geometry.
InitVolumes ==
  /\ \E kind \in Kinds, n \in 0..MaxSiblings :
       \E first \in Arrangements(Siblings(kind), n), f \in IndexPermutations(n) :
         vols = [kind |-> kind,
                 geo |-> [l \in Loads |->
                            IF l = 1 THEN first ELSE [i \in 1..n |-> first[f[i]]]]]
  /\ volRet = [l \in Loads |-> [n |-> 0, before |-> <<>>]]
  /\ IdleLocator /\ IdleChannel /\ IdleOpDet /\ IdlePlanes /\ IdleWires /\ IdleCryostat

Sort(l, out) ==
  /\ volRet[l].n < MaxSorts
  /\ vols' = [vols EXCEPT !.geo[l] = out]
  /\ volRet' = [volRet EXCEPT ![l] = [n |-> @.n + 1, before |-> vols.geo[l]]]
  /\ UNCHANGED <<locVars, chanVars, opVars, planeVars, wireVars, cryoVars>>

CallSortCryostats ==
  /\ vols.kind = "Cryostat"
  /\ \E l \in Loads : \E out \in SortCryostats(vols.geo[l]) : Sort(l, out)

CallSortTPCs ==
  /\ vols.kind = "TPC"
  /\ \E l \in Loads : \E out \in SortTPCs(vols.geo[l]) : Sort(l, out)

CallSortAuxDets ==
  /\ vols.kind = "AuxDet"
  /\ \E l \in Loads : \E out \in SortAuxDets(vols.geo[l]) : Sort(l, out)

CallSortAuxDetSensitive ==
  /\ vols.kind = "AuxDetSensitive"
  /\ \E l \in Loads : \E out \in SortAuxDetSensitive(vols.geo[l]) : Sort(l, out)

NextVolumes ==
  \/ CallSortCryostats
  \/ CallSortTPCs
  \/ CallSortAuxDets
  \/ CallSortAuxDetSensitive

SpecVolumes == InitVolumes /\ [][NextVolumes]_vars

\* C9 (as claimed): two arrangements of the same siblings sort to the same
\* sequence, and sorting a sorted sequence again leaves it unchanged,
\* whatever the keys of the siblings.
C9_OrderIndependentOfArrangement ==
  /\ (\A l \in Loads : volRet[l].n >= 1) => vols.geo[1] = vols.geo[2]
  /\ \A l \in Loads : volRet[l].n >= 2 => vols.geo[l] = volRet[l].before

(***************************************************************************)
(* CryostatGeo: sorting of the TPCs, identifiers, lookup by position.      *)
(***************************************************************************)

\* Bounds: TPCs in the cryostat, sorting and updating calls, cryostat number.
MaxTPCs     == 2
MaxCalls    == 3
MaxCryostat == 1

\* geo::CryostatID and geo::TPCID; a default-constructed one is invalid.
InvalidCryostatID == [isValid |-> FALSE, Cryostat |-> UIntMax]
InvalidTPCID == [isValid |-> FALSE, Cryostat |-> UIntMax, TPC |-> UIntMax]
CryostatIDs == [isValid : {TRUE}, Cryostat : 0..MaxCryostat]
TPCID(cryoid, tpc) ==
  [isValid |-> cryoid.isValid, Cryostat |-> cryoid.Cryostat, TPC |-> tpc]

\* A TPC: the world x of its centre, its half-width in x, its identifier.
TPCShapes == [x : {0, 2, 3}, HalfWidth : {1}]
TPCGeo(shape) == [x |-> shape.x, HalfWidth |-> shape.HalfWidth, fID |-> InvalidTPCID]
TPCPoints == [x : {-3, 1, 3}]
Wiggles == {1, 2}

NTPC == Len(fTPCs)

\* TPCGeo::UpdateAfterSorting(tpcid): the TPC takes the identifier.
TPCUpdateAfterSorting(tpc, tpcid) == [tpc EXCEPT !.fID = tpcid]

\* TPCGeo::ContainsPosition(point, wiggle): the half-extent inflated by the
\* wiggle factor.
ContainsPosition(tpc, point, wiggle) ==
  Abs(point.x - tpc.x) <= tpc.HalfWidth * wiggle

\* CryostatGeo::SortSubVolumes: the TPC objects are moved into the order the
\* sorter gives them, each with the identifier it carries.
SortSubVolumes == SortTPCs(fTPCs)

UpdateAfterSorting_OneBased(cryoid) ==
  [fID |-> cryoid,
   fTPCs |-> [i \in 1..NTPC |-> TPCUpdateAfterSorting(fTPCs[i], TPCID(cryoid, i))]]

\* CryostatGeo::UpdateAfterSorting: the members as the call leaves them.
UpdateAfterSorting(cryoid) ==
  [fID |-> cryoid,
   fTPCs |-> [i \in 1..NTPC |->
                TPCUpdateAfterSorting(fTPCs[i], TPCID(cryoid, i - 1))]]

\* CryostatGeo::PositionToTPCptr: a null pointer, or the index of the TPC
\* pointed to.
RECURSIVE TPCScan(_, _, _)
TPCScan(i, point, wiggle) ==
  IF i >= NTPC THEN [null |-> TRUE]
  ELSE IF ContainsPosition(fTPCs[i + 1], point, wiggle)
    THEN [null |-> FALSE, index |-> i]
  ELSE TPCScan(i + 1, point, wiggle)

PositionToTPCptr(point, wiggle) == TPCScan(0, point, wiggle)

\* CryostatGeo::PositionToTPCID
PositionToTPCID(point, wiggle) ==
  LET tpc == PositionToTPCptr(point, wiggle)
  IN IF ~tpc.null THEN fTPCs[tpc.index + 1].fID ELSE InvalidTPCID

\* The cryostat as constructed: no identifiers yet, the TPCs in the order of
\* the geometry description.  The arguments of the query are fixed here.
InitCryostat ==
  /\ fID = InvalidCryostatID
  /\ \E n \in 0..MaxTPCs : \E shapes \in Arrangements(TPCShapes, n) :
       fTPCs = [i \in 1..n |-> TPCGeo(shapes[i])]
  /\ cryoCalls = <<>>
  /\ cryoRet \in [op : {"none"}, point : TPCPoints, wiggle : Wiggles]
  /\ IdleLocator /\ IdleChannel /\ IdleOpDet /\ IdlePlanes /\ IdleWires
  /\ IdleVolumes

CryoArgs == [op |-> "none", point |-> cryoRet.point, wiggle |-> cryoRet.wiggle]

\* The sort of the optical detectors leaves the empty fOpDets as it is.
CallSortSubVolumes ==
  /\ Len(cryoCalls) < MaxCalls
  /\ \E out \in SortSubVolumes : fTPCs' = out
  /\ cryoCalls' = Append(cryoCalls, [op |-> "SortSubVolumes"])
  /\ cryoRet' = CryoArgs
  /\ UNCHANGED <<fID, locVars, chanVars, opVars, planeVars, wireVars, volVars>>

CallUpdateAfterSorting ==
  /\ Len(cryoCalls) < MaxCalls
  /\ \E cryoid \in CryostatIDs :
       /\ fID' = UpdateAfterSorting(cryoid).fID
       /\ fTPCs' = UpdateAfterSorting(cryoid).fTPCs
       /\ cryoCalls' = Append(cryoCalls, [op |-> "UpdateAfterSorting",
                                          cryoid |-> cryoid])
  /\ cryoRet' = CryoArgs
  /\ UNCHANGED <<locVars, chanVars, opVars, planeVars, wireVars, volVars>>

CallPositionToTPCID ==
  /\ cryoRet' = [op |-> "PositionToTPCID", point |-> cryoRet.point,
                 wiggle |-> cryoRet.wiggle,
                 tpcid |-> PositionToTPCID(cryoRet.point, cryoRet.wiggle)]
  /\ UNCHANGED <<fID, fTPCs, cryoCalls,
                 locVars, chanVars, opVars, planeVars, wireVars, volVars>>

NextCryostat ==
  \/ CallSortSubVolumes
  \/ CallUpdateAfterSorting
  \/ CallPositionToTPCID

SpecCryostat == InitCryostat /\ [][NextCryostat]_vars

\* The last two calls were SortSubVolumes, then UpdateAfterSorting.
SortedAndUpdated ==
  /\ Len(cryoCalls) >= 2
  /\ cryoCalls[Len(cryoCalls) - 1].op = "SortSubVolumes"
  /\ cryoCalls[Len(cryoCalls)].op = "UpdateAfterSorting"

Containing(point, wiggle) ==
  {i \in 0..(NTPC - 1) : Abs(point.x - fTPCs[i + 1].x) <= fTPCs[i + 1].HalfWidth * wiggle}

\* C11: after SortSubVolumes followed by UpdateAfterSorting(c) the cryostat's
\* identifier is c and the TPC at every position i carries (c, i), whatever
\* it carried before; the identifiers of the TPCs are pairwise distinct; and
\* an identifier returned by PositionToTPCID names the position of the first
\* TPC that contains the point.
C11_IdentifierIsRank ==
  SortedAndUpdated =>
    LET c == cryoCalls[Len(cryoCalls)].cryoid
    IN /\ fID = c
       /\ \A i \in 0..(NTPC - 1) :
            fTPCs[i + 1].fID = [isValid |-> TRUE, Cryostat |-> c.Cryostat, TPC |-> i]
       /\ \A i, j \in 1..NTPC : i # j => fTPCs[i].fID # fTPCs[j].fID
       /\ cryoRet.op = "PositionToTPCID" =>
            LET hits == Containing(cryoRet.point, cryoRet.wiggle)
            IN IF hits = {}
                 THEN ~cryoRet.tpcid.isValid
                 ELSE /\ cryoRet.tpcid.isValid
                      /\ cryoRet.tpcid.Cryostat = c.Cryostat
                      /\ cryoRet.tpcid.TPC = SetMin(hits)

\* Two TPCs that carried the identifiers of another cryostat are sorted and
\* updated; both contain the point and the query names position 0.
C11_Witness ==
  /\ SortedAndUpdated
  /\ Len(cryoCalls) = 3
  /\ cryoCalls[1].op = "UpdateAfterSorting"
  /\ cryoCalls[1].cryoid # cryoCalls[3].cryoid
  /\ NTPC = 2
  /\ fTPCs[1].x < fTPCs[2].x
  /\ cryoRet.op = "PositionToTPCID"
  /\ Containing(cryoRet.point, cryoRet.wiggle) = {0, 1}
  /\ cryoRet.tpcid = [isValid |-> TRUE, Cryostat |-> fID.Cryostat, TPC |-> 0]

\* The query finds no TPC and returns the invalid identifier.
C11_WitnessNotFound ==
  /\ SortedAndUpdated
  /\ NTPC = 2
  /\ cryoRet.op = "PositionToTPCID"
  /\ Containing(cryoRet.point, cryoRet.wiggle) = {}
  /\ cryoRet.tpcid = InvalidTPCID

====
